---- MODULE Spec2Model ----
(***************************************************************************)
(* Model of orbit3d.py: the classes Body, System and Trajectory and the    *)
(* module-level Verlet integration loop.                                   *)
(*                                                                         *)
(* Numbers.  The program computes with numpy float64 values.  A value is   *)
(* modelled as a record: a finite number Fin(v) with v an integer, NaN, or *)
(* an infinity.  Finite arithmetic is fixed-point with unit resolution: a  *)
(* quotient is rounded toward zero (sign-symmetric, as IEEE rounding is).  *)
(* Division by zero, NaN propagation and NaN comparison follow IEEE-754 as *)
(* numpy applies them (a warning, never an exception).                     *)
(*                                                                         *)
(* Units.  Lengths, masses and times are expressed in model units chosen   *)
(* so that the quantities are small integers: the time unit is dt/2 and    *)
(* the mass unit makes the gravitational constant g equal to 4000.          *)
(*                                                                         *)
(* Indexing.  Python lists and array rows (bodies, trajectory rows,        *)
(* history slots, input tables) are functions on 0..len-1, as in the       *)
(* source.  A coordinate vector is a tuple: components 1..3 stand for the  *)
(* array indices 0..2, and a 6-vector is position \o velocity.             *)
(***************************************************************************)
EXTENDS Integers, Sequences, FiniteSets, TLC

VARIABLES sol, tra, n_rows, p0, k, A, qn1, qn, qplus, raised, ret, pc, passed, args, ncalls

vars == <<sol, tra, n_rows, p0, k, A, qn1, qn, qplus, raised, ret, pc, passed, args, ncalls>>

(* ------------------------------ bounds -------------------------------- *)

\* Largest number of bodies of a System or Trajectory.
MaxBodies == 2

\* Largest number of rows of a Trajectory, and of steps of a run.
MaxRows == 4

\* Largest number of state-changing calls on a System after its construction.
MaxCalls == 2

(* --------------------------- float64 values --------------------------- *)

Fin(v) == [kind |-> "fin", v |-> v]

NaN == [kind |-> "nan", v |-> 0]

Inf(s) == [kind |-> "inf", v |-> IF s < 0 THEN -1 ELSE 1]

IsNaN(a) == a.kind = "nan"

IsFin(a) == a.kind = "fin"

Sgn(v) == IF v > 0 THEN 1 ELSE IF v < 0 THEN -1 ELSE 0

AbsInt(v) == IF v < 0 THEN -v ELSE v

\* -a
FNeg(a) == IF IsNaN(a) THEN NaN ELSE [kind |-> a.kind, v |-> -a.v]

\* np.abs(a)
FAbs(a) == IF IsNaN(a) THEN NaN ELSE [kind |-> a.kind, v |-> AbsInt(a.v)]

\* a + b
FAdd(a, b) ==
    IF IsNaN(a) \/ IsNaN(b) THEN NaN
    ELSE IF a.kind = "inf" THEN (IF b.kind = "inf" /\ b.v # a.v THEN NaN ELSE a)
    ELSE IF b.kind = "inf" THEN b
    ELSE Fin(a.v + b.v)

\* a - b
FSub(a, b) == FAdd(a, FNeg(b))

\* a * b
FMul(a, b) ==
    IF IsNaN(a) \/ IsNaN(b) THEN NaN
    ELSE IF a.kind = "inf" \/ b.kind = "inf"
         THEN (IF a.v = 0 \/ b.v = 0 THEN NaN ELSE Inf(Sgn(a.v) * Sgn(b.v)))
    ELSE Fin(a.v * b.v)

\* a / b ; the divisors of the program are never negative zero
FDiv(a, b) ==
    IF IsNaN(a) \/ IsNaN(b) THEN NaN
    ELSE IF a.kind = "inf"
         THEN (IF b.kind = "inf" THEN NaN ELSE Inf(a.v * (IF b.v < 0 THEN -1 ELSE 1)))
    ELSE IF b.kind = "inf" THEN Fin(0)
    ELSE IF b.v = 0 THEN (IF a.v = 0 THEN NaN ELSE Inf(a.v))
    ELSE Fin(Sgn(a.v) * Sgn(b.v) * (AbsInt(a.v) \div AbsInt(b.v)))

\* a == b on floats: a NaN equals nothing, itself included
FEq(a, b) == ~IsNaN(a) /\ ~IsNaN(b) /\ a = b

(* ------------------------------ vectors ------------------------------- *)

V3(x, y, z) == <<Fin(x), Fin(y), Fin(z)>>

\* np.zeros(3)
Zeros3 == V3(0, 0, 0)

\* one row of np.zeros(shape=(2, 6))
Zeros6 == Zeros3 \o Zeros3

VAdd(u, v) == [c \in DOMAIN u |-> FAdd(u[c], v[c])]

VSub(u, v) == [c \in DOMAIN u |-> FSub(u[c], v[c])]

\* v * s for a scalar s
VScale(v, s) == [c \in DOMAIN v |-> FMul(v[c], s)]

\* np.array_equal(u, v)
array_equal(u, v) == \A c \in DOMAIN u : FEq(u[c], v[c])

\* The same operations on n x 3 arrays.
AAdd(X, Y) == [i \in DOMAIN X |-> VAdd(X[i], Y[i])]

ASub(X, Y) == [i \in DOMAIN X |-> VSub(X[i], Y[i])]

AScale(X, s) == [i \in DOMAIN X |-> VScale(X[i], s)]

\* 0.5 * X
AHalf(X) == [i \in DOMAIN X |-> [c \in DOMAIN X[i] |-> FDiv(X[i][c], Fin(2))]]

\* len(t) of a list or array
len(t) == Cardinality(DOMAIN t)

\* Python's None, and an unbound name
None == <<>>

(* ------------------------------ constants ----------------------------- *)

\* Gravitational constant, in model units.
g == 4000

\* Time step, in model units.
dt == 2

dt2 == dt * dt

(* ------------------------------ class Body ---------------------------- *)

\* Body.__init__
Body(name, x0, y0, z0, vx0, vy0, vz0, mass, gm, radius) ==
    [GM |-> gm, mass |-> mass, name |-> name,
     x0 |-> x0, y0 |-> y0, z0 |-> z0,
     x |-> x0, y |-> y0, z |-> z0,
     vx0 |-> vx0, vy0 |-> vy0, vz0 |-> vz0,
     vx |-> vx0, vy |-> vy0, vz |-> vz0,
     radius |-> radius,
     last_values |-> [s \in 0..1 |-> Zeros6],
     iter |-> 0]

compute_acceleration(b, force_) == [c \in DOMAIN force_ |-> FDiv(force_[c], b.mass)]

get_position(b) == <<b.x, b.y, b.z>>

get_velocity(b) == <<b.vx, b.vy, b.vz>>

set_position(b, x, y, z) == [b EXCEPT !.x = x, !.y = y, !.z = z]

set_velocity(b, vx, vy, vz) == [b EXCEPT !.vx = vx, !.vy = vy, !.vz = vz]

set_integration_result(b, pos, result) == [b EXCEPT !.last_values[pos] = result]

get_integration_result(b, pos) == b.last_values[pos]

(* ----------------------------- class System --------------------------- *)

\* System.__init__ raises IndexError when it indexes a table past its end.
System_raises(names, posvel, masses, gms, radii) ==
    \E i \in 0..(len(names) - 1) :
        \/ i \notin DOMAIN posvel
        \/ i \notin DOMAIN masses
        \/ i \notin DOMAIN gms
        \/ i \notin DOMAIN radii

\* System.__init__ when no index is out of range
System(names, posvel, masses, gms, radii) ==
    [n |-> len(names),
     bodies |-> [i \in 0..(len(names) - 1) |->
                    Body(names[i], posvel[i][1], posvel[i][2], posvel[i][3],
                         posvel[i][4], posvel[i][5], posvel[i][6],
                         masses[i], gms[i], radii[i])]]

get_positions(s) == [i \in 0..(s.n - 1) |-> get_position(s.bodies[i])]

get_velocities(s) == [i \in 0..(s.n - 1) |-> get_velocity(s.bodies[i])]

\* The divisors of the two divisions of force(body1, body2): the components of
\* dist (r12 / dist) and of dist ** 2.  None when the early return is taken.
force_divisors(body1, body2) ==
    LET pos1 == get_position(body1)
        pos2 == get_position(body2)
        r12  == VSub(pos2, pos1)
        dist == [c \in DOMAIN r12 |-> FAbs(r12[c])]
    IN  IF array_equal(pos2, pos1) THEN {}
        ELSE {dist[c] : c \in DOMAIN dist} \cup {FMul(dist[c], dist[c]) : c \in DOMAIN dist}

\* force(body1, body2) without the guard against identical positions
force_unguarded(body1, body2) ==
    LET pos1 == get_position(body1)
        pos2 == get_position(body2)
        r12  == VSub(pos2, pos1)
        dist == [c \in DOMAIN r12 |-> FAbs(r12[c])]
        r12_hat == [c \in DOMAIN r12 |-> FDiv(r12[c], dist[c])]
    IN  [c \in DOMAIN r12 |->
            FMul(FDiv(FMul(FMul(FNeg(Fin(g)), body1.mass), body2.mass),
                      FMul(dist[c], dist[c])),
                 r12_hat[c])]

\* force(body1, body2): vector force acting on body2 exerted by body1.
\* np.abs, / and ** act on each component of the array.
force(body1, body2) ==
    LET pos1 == get_position(body1)
        pos2 == get_position(body2)
        r12  == VSub(pos2, pos1)
        dist == [c \in DOMAIN r12 |-> FAbs(r12[c])]
        r12_hat == [c \in DOMAIN r12 |-> FDiv(r12[c], dist[c])]
    IN  IF array_equal(pos2, pos1) THEN Zeros3
        ELSE [c \in DOMAIN r12 |->
                FMul(FDiv(FMul(FMul(FNeg(Fin(g)), body1.mass), body2.mass),
                          FMul(dist[c], dist[c])),
                     r12_hat[c])]

force_matrix(s) ==
    [i \in 0..(s.n - 1) |-> [j \in 0..(s.n - 1) |-> force(s.bodies[i], s.bodies[j])]]

\* The sum of the first m vectors of row, as np.sum adds them.
RECURSIVE np_sum(_, _)
np_sum(row, m) == IF m = 0 THEN Zeros3 ELSE VAdd(np_sum(row, m - 1), row[m - 1])

\* np.sum(self.force_matrix(), axis=1): entry i sums forces[i][j] over j.
resforce(s) ==
    LET forces == force_matrix(s)
    IN  [i \in 0..(s.n - 1) |-> np_sum(forces[i], s.n)]

get_accelerations(s) ==
    LET rf == resforce(s)
    IN  [i \in 0..(s.n - 1) |-> compute_acceleration(s.bodies[i], rf[i])]

get_integration_results(s, pos) ==
    [i \in 0..(s.n - 1) |-> get_integration_result(s.bodies[i], pos)]

\* set_integration_results storing res_pos in the velocity columns too
set_integration_results_novel(s, pos, res_pos, res_vel) ==
    [s EXCEPT !.bodies =
        [i \in 0..(s.n - 1) |-> set_integration_result(s.bodies[i], pos, res_pos[i] \o res_pos[i])]]

set_integration_results(s, pos, res_pos, res_vel) ==
    LET data == [i \in 0..(s.n - 1) |-> res_pos[i] \o res_vel[i]]
    IN  [s EXCEPT !.bodies =
            [i \in 0..(s.n - 1) |-> set_integration_result(s.bodies[i], pos, data[i])]]

set_positions(s, pos) ==
    [s EXCEPT !.bodies =
        [i \in 0..(s.n - 1) |-> set_position(s.bodies[i], pos[i][1], pos[i][2], pos[i][3])]]

\* The source calls Body.set_position here.
set_velocities(s, vel) ==
    [s EXCEPT !.bodies =
        [i \in 0..(s.n - 1) |-> set_position(s.bodies[i], vel[i][1], vel[i][2], vel[i][3])]]

(* --------------------------- class Trajectory ------------------------- *)

\* Trajectory.__init__
Trajectory(n_trajectories, n_coords) ==
    [trajectories |-> [i \in 0..(n_trajectories - 1) |-> [r \in 0..(n_coords - 1) |-> Zeros3]],
     n_trajectories |-> n_trajectories,
     row_counter |-> 0]

\* The indices i at which the loop body of set_trajectory_position raises
\* IndexError: pos has no entry i, or the array has no row row_counter.
set_trajectory_position_fails(t, pos) ==
    {i \in 0..(t.n_trajectories - 1) :
        i \notin DOMAIN pos \/ t.row_counter \notin DOMAIN t.trajectories[i]}

set_trajectory_position_raises(t, pos) == set_trajectory_position_fails(t, pos) # {}

\* set_trajectory_position writing row 0 whatever row_counter is
set_trajectory_position_row0(t, pos) ==
    [t EXCEPT !.trajectories =
                [i \in 0..(t.n_trajectories - 1) |->
                    IF 0 \in DOMAIN t.trajectories[i] /\ i \in DOMAIN pos
                    THEN [t.trajectories[i] EXCEPT ![0] = pos[i]]
                    ELSE t.trajectories[i]],
              !.row_counter = IF set_trajectory_position_raises(t, pos) THEN @ ELSE @ + 1]

\* set_trajectory_position: the rows written before the first failing index
\* stay written; row_counter advances only when the loop completes.
set_trajectory_position(t, pos) ==
    LET fails == set_trajectory_position_fails(t, pos)
        stop  == IF fails = {} THEN t.n_trajectories
                 ELSE CHOOSE i \in fails : \A j \in fails : i <= j
    IN  [t EXCEPT !.trajectories =
                    [i \in 0..(t.n_trajectories - 1) |->
                        IF i < stop THEN [t.trajectories[i] EXCEPT ![t.row_counter] = pos[i]]
                        ELSE t.trajectories[i]],
                  !.row_counter = IF fails = {} THEN @ + 1 ELSE @]

get_trajectory(t, i) == t.trajectories[i]

(* ------------------------------- inputs ------------------------------- *)

\* The list of body names of the script.
body_names == <<"Sun", "Mercury", "Venus", "Earth", "Mars",
                "Jupiter", "Saturn", "Uranus", "Neptune", "Pluto">>

\* The first l names, a list on 0..l-1.
NameTable(l) == [i \in 0..(l - 1) |-> body_names[i + 1]]

\* All lists of at most maxlen entries drawn from S.
Tables(S, maxlen) == UNION {[0..(l - 1) -> S] : l \in 0..maxlen}

\* Positions: identical, sharing two coordinates, sharing one, sharing none.
PosSet == {V3(0, 0, 0), V3(40, 0, 0), V3(40, 50, 60), V3(-30, -40, -50)}

VelSet == {V3(0, 0, 0), V3(1, 0, -1)}

MassSet == {Fin(1), Fin(2)}

\* Gravitational parameters and radii are stored and never read.
GmSet == {Fin(1)}

RadiusSet == {Fin(1)}

\* Initial states (x, y, z, vx, vy, vz) given to the constructor.
RunStates == {p \o v : p \in PosSet, v \in VelSet}

CtorStates == {p \o v : p \in {V3(0, 0, 0), V3(40, 50, 60)}, v \in VelSet}

\* Positions recorded into a Trajectory on its own.
TrajPos == {V3(1, 2, 3), V3(4, 5, 6)}

\* x[:, 0:3]
Cols03(X) == [i \in DOMAIN X |-> SubSeq(X[i], 1, 3)]

NoCall == [op |-> "none", arg |-> None, val |-> None]

NoArgs == [called |-> FALSE, shorter |-> FALSE, longer |-> FALSE]

(* ------------------- specification: a Trajectory in use --------------- *)

InitTraj ==
    /\ n_rows \in 0..MaxRows
    /\ tra \in {Trajectory(nt, n_rows) : nt \in 0..MaxBodies}
    /\ passed = <<>>
    /\ raised = "none"
    /\ pc = "traj"
    /\ sol = None /\ p0 = None /\ k = 0 /\ A = None
    /\ qn1 = None /\ qn = None /\ qplus = None
    /\ ret = NoCall /\ args = NoArgs /\ ncalls = 0

\* A call tra.set_trajectory_position(pos); pos has one entry per body, or
\* one too few.  passed lists the arguments of the calls that returned.
Record(pos) ==
    /\ pc = "traj"
    /\ tra.row_counter <= MaxRows
    /\ tra' = set_trajectory_position(tra, pos)
    /\ raised' = IF set_trajectory_position_raises(tra, pos) THEN "IndexError" ELSE "none"
    /\ passed' = IF set_trajectory_position_raises(tra, pos) THEN passed ELSE Append(passed, pos)
    /\ UNCHANGED <<sol, n_rows, p0, k, A, qn1, qn, qplus, ret, pc, args, ncalls>>

NextTraj ==
    \E l \in {tra.n_trajectories - 1, tra.n_trajectories} :
        \E pos \in [0..(l - 1) -> TrajPos] : Record(pos)

SpecTraj == InitTraj /\ [][NextTraj]_vars

(* --------------------- specification: a System in use ----------------- *)

InitSys ==
    /\ pc = "new"
    /\ sol = None
    /\ raised = "none"
    /\ ret = NoCall /\ args = NoArgs /\ ncalls = 0
    /\ tra = None /\ n_rows = 0 /\ passed = <<>>
    /\ p0 = None /\ k = 0 /\ A = None
    /\ qn1 = None /\ qn = None /\ qplus = None

\* sol = System(names, posvel, masses, gms, radii)
Construct(names, posvel, masses, gms, radii) ==
    /\ pc = "new"
    /\ args' = [called |-> TRUE,
                shorter |-> \E l \in {len(posvel), len(masses), len(gms), len(radii)} :
                                l < len(names),
                longer |-> \E l \in {len(posvel), len(masses), len(gms), len(radii)} :
                                l > len(names)]
    /\ IF System_raises(names, posvel, masses, gms, radii)
       THEN /\ raised' = "IndexError"
            /\ pc' = "raised"
            /\ sol' = sol
       ELSE /\ raised' = "none"
            /\ pc' = "ready"
            /\ sol' = System(names, posvel, masses, gms, radii)
    /\ UNCHANGED <<tra, n_rows, p0, k, A, qn1, qn, qplus, ret, passed, ncalls>>

SetPositions(pos) ==
    /\ pc = "ready"
    /\ ncalls < MaxCalls
    /\ sol' = set_positions(sol, pos)
    /\ ret' = [op |-> "set_positions", arg |-> pos, val |-> None]
    /\ ncalls' = ncalls + 1
    /\ UNCHANGED <<tra, n_rows, p0, k, A, qn1, qn, qplus, raised, pc, passed, args>>

SetVelocities(vel) ==
    /\ pc = "ready"
    /\ ncalls < MaxCalls
    /\ sol' = set_velocities(sol, vel)
    /\ ret' = [op |-> "set_velocities", arg |-> vel, val |-> None]
    /\ ncalls' = ncalls + 1
    /\ UNCHANGED <<tra, n_rows, p0, k, A, qn1, qn, qplus, raised, pc, passed, args>>

ForceMatrix ==
    /\ pc = "ready"
    /\ ret' = [op |-> "force_matrix", arg |-> None, val |-> force_matrix(sol)]
    /\ UNCHANGED <<sol, tra, n_rows, p0, k, A, qn1, qn, qplus, raised, pc, passed, args, ncalls>>

GetAccelerations ==
    /\ pc = "ready"
    /\ ret' = [op |-> "get_accelerations", arg |-> None, val |-> get_accelerations(sol)]
    /\ UNCHANGED <<sol, tra, n_rows, p0, k, A, qn1, qn, qplus, raised, pc, passed, args, ncalls>>

NextSys ==
    \/ pc = "new" /\
         \E names \in {NameTable(l) : l \in 0..MaxBodies} :
           \E posvel \in Tables(CtorStates, MaxBodies + 1) :
             \E masses \in Tables(MassSet, MaxBodies + 1) :
               \E gms \in Tables(GmSet, MaxBodies + 1) :
                 \E radii \in Tables(RadiusSet, MaxBodies + 1) :
                   Construct(names, posvel, masses, gms, radii)
    \/ pc = "ready" /\ \E pos \in [0..(sol.n - 1) -> PosSet] : SetPositions(pos)
    \/ pc = "ready" /\ \E vel \in [0..(sol.n - 1) -> VelSet] : SetVelocities(vel)
    \/ ForceMatrix
    \/ GetAccelerations

SpecSys == InitSys /\ [][NextSys]_vars

(* ------------------- specification: the integration loop -------------- *)

\* The state when the loop is entered: sol and tra are constructed from
\* tables of one length and p0 = sol.get_velocities() is taken.
InitRun ==
    /\ n_rows \in 0..MaxRows
    /\ \E n \in 1..MaxBodies :
         \E posvel \in [0..(n - 1) -> RunStates] :
           \E masses \in [0..(n - 1) -> MassSet] :
             /\ sol = System(NameTable(n), posvel, masses,
                             [i \in 0..(n - 1) |-> Fin(1)], [i \in 0..(n - 1) |-> Fin(1)])
             /\ tra = Trajectory(n, n_rows)
    /\ p0 = get_velocities(sol)
    /\ k = 0
    /\ pc = "loop"
    /\ A = None /\ qn1 = None /\ qn = None /\ qplus = None
    /\ raised = "none" /\ ret = NoCall /\ args = NoArgs /\ ncalls = 0 /\ passed = <<>>

\* Iteration k == 0.  k counts the iterations done; row_counter = k < n_rows,
\* so set_trajectory_position does not raise in the loop.
StepInitial ==
    /\ pc = "loop" /\ k < n_rows /\ k = 0
    /\ LET q0 == get_positions(sol)
       IN  /\ sol' = set_integration_results(sol, 0, q0, p0)
           /\ tra' = set_trajectory_position(tra, q0)
    /\ k' = k + 1
    /\ UNCHANGED <<n_rows, p0, A, qn1, qn, qplus, raised, ret, pc, passed, args, ncalls>>

\* Iteration k == 1.
StepBootstrap ==
    /\ pc = "loop" /\ k < n_rows /\ k = 1
    /\ LET q0 == Cols03(get_integration_results(sol, 0))
           acc == get_accelerations(sol)
           q1 == AAdd(AAdd(q0, AScale(p0, Fin(dt))), AScale(AHalf(acc), Fin(dt2)))
       IN  /\ A' = acc
           /\ sol' = set_positions(set_integration_results(sol, 1, q1, p0), q1)
           /\ tra' = set_trajectory_position(tra, q1)
    /\ k' = k + 1
    /\ UNCHANGED <<n_rows, p0, qn1, qn, qplus, raised, ret, pc, passed, args, ncalls>>

\* The even iteration overwriting the newer slot 1 instead of the older slot 0
StepEven_newer_slot ==
    /\ pc = "loop" /\ k < n_rows /\ k >= 2 /\ k % 2 = 0
    /\ A' = get_accelerations(sol)
    /\ qn1' = Cols03(get_integration_results(sol, 0))
    /\ qn' = Cols03(get_integration_results(sol, 1))
    /\ qplus' = AAdd(ASub(AScale(qn', Fin(2)), qn1'), AScale(A', Fin(dt2)))
    /\ tra' = set_trajectory_position(tra, qplus')
    /\ sol' = set_positions(set_integration_results(sol, 1, qplus', p0), qplus')
    /\ k' = k + 1
    /\ UNCHANGED <<n_rows, p0, raised, ret, pc, passed, args, ncalls>>

\* Iteration k >= 2, k even.
StepEven ==
    /\ pc = "loop" /\ k < n_rows /\ k >= 2 /\ k % 2 = 0
    /\ A' = get_accelerations(sol)
    /\ qn1' = Cols03(get_integration_results(sol, 0))
    /\ qn' = Cols03(get_integration_results(sol, 1))
    /\ qplus' = AAdd(ASub(AScale(qn', Fin(2)), qn1'), AScale(A', Fin(dt2)))
    /\ tra' = set_trajectory_position(tra, qplus')
    /\ sol' = set_positions(set_integration_results(sol, 0, qplus', p0), qplus')
    /\ k' = k + 1
    /\ UNCHANGED <<n_rows, p0, raised, ret, pc, passed, args, ncalls>>

\* Iteration k >= 2, k odd.
StepOdd ==
    /\ pc = "loop" /\ k < n_rows /\ k >= 2 /\ k % 2 # 0
    /\ A' = get_accelerations(sol)
    /\ qn1' = Cols03(get_integration_results(sol, 1))
    /\ qn' = Cols03(get_integration_results(sol, 0))
    /\ qplus' = AAdd(ASub(AScale(qn', Fin(2)), qn1'), AScale(A', Fin(dt2)))
    /\ tra' = set_trajectory_position(tra, qplus')
    /\ sol' = set_positions(set_integration_results(sol, 1, qplus', p0), qplus')
    /\ k' = k + 1
    /\ UNCHANGED <<n_rows, p0, raised, ret, pc, passed, args, ncalls>>

NextRun == StepInitial \/ StepBootstrap \/ StepEven \/ StepOdd

SpecRun == InitRun /\ [][NextRun]_vars

(* ------------------------------- claims ------------------------------- *)

\* Row r of the trajectory, for all bodies: an n x 3 array.
TraRow(r) == [i \in 0..(tra.n_trajectories - 1) |-> get_trajectory(tra, i)[r]]

\* The initial position and velocity a body was constructed with.
InitialPosition(b) == <<b.x0, b.y0, b.z0>>

InitialVelocity(b) == <<b.vx0, b.vy0, b.vz0>>

\* C1: when get_accelerations returns for a System of n >= 2 bodies, the
\* acceleration of every body k is the sum over i of F[i][k] (the forces the
\* bodies exert on k) divided by the mass of k.
C1_ResultantSumsFirstIndex ==
    (ret.op = "get_accelerations" /\ sol.n >= 2) =>
        LET F == force_matrix(sol)
        IN  \A b \in 0..(sol.n - 1) :
                ret.val[b] = compute_acceleration(sol.bodies[b],
                                np_sum([i \in 0..(sol.n - 1) |-> F[i][b]], sol.n))

\* C2: a call of set_trajectory_position made when row_counter = n_rows raises,
\* leaves the rows and row_counter as they were, and so row_counter never
\* exceeds n_rows.
C2_RecordAtCapacityFails ==
    [][/\ (pc = "traj" /\ tra.row_counter = n_rows) => (raised' = "IndexError" /\ tra' = tra)
       /\ pc = "traj" => tra'.row_counter <= n_rows]_vars

\* C3: after k calls of set_trajectory_position that returned, row_counter = k
\* and rows 0..k-1 of every body hold the k positions passed for it, in call
\* order; this holds in every state, so no later call changes an earlier row
\* or another body's row.
C3_AppendLaw ==
    pc = "traj" =>
        /\ tra.row_counter = Len(passed)
        /\ \A b \in 0..(tra.n_trajectories - 1) :
             \A r \in 0..(Len(passed) - 1) :
                get_trajectory(tra, b)[r] = passed[r + 1][b]

\* Two bodies, three rows recorded, the rows and the bodies' positions differ,
\* and a call with too short an argument has failed in between.
C3_Witness ==
    /\ pc = "traj"
    /\ tra.n_trajectories = 2
    /\ Len(passed) = 3
    /\ passed[1] # passed[2]
    /\ passed[3][0] # passed[3][1]
    /\ raised = "IndexError"

\* C4: the matrix force_matrix returns has a zero diagonal and is
\* antisymmetric, F[i][j] == -F[j][i] as floats, for all i # j.
C4_ForceMatrixAntisymmetric ==
    ret.op = "force_matrix" =>
        \A i \in 0..(sol.n - 1) :
            /\ ret.val[i][i] = Zeros3
            /\ \A j \in 0..(sol.n - 1) \ {i} :
                 \A c \in 1..3 : FEq(ret.val[i][j][c], FNeg(ret.val[j][i][c]))

\* C5 as stated: with one body, whatever its initial velocity, the force and
\* the acceleration are zero and every recorded row is the initial position.
C5_SingleBodyNeverMoves ==
    (pc = "loop" /\ sol.n = 1) =>
        /\ resforce(sol)[0] = Zeros3
        /\ get_accelerations(sol)[0] = Zeros3
        /\ k >= 2 => A[0] = Zeros3
        /\ get_position(sol.bodies[0]) = InitialPosition(sol.bodies[0])
        /\ \A r \in 0..(tra.row_counter - 1) : TraRow(r)[0] = InitialPosition(sol.bodies[0])

\* C5 amended: with one body (of positive mass, at a finite position), the
\* force and the acceleration are zero at every step; if moreover the initial
\* velocity is zero, the position stays the initial position and every
\* recorded row is the initial position.
C5_SingleBodyAtRest ==
    (pc = "loop" /\ sol.n = 1) =>
        /\ resforce(sol)[0] = Zeros3
        /\ get_accelerations(sol)[0] = Zeros3
        /\ k >= 2 => A[0] = Zeros3
        /\ p0[0] = Zeros3 =>
            /\ get_position(sol.bodies[0]) = InitialPosition(sol.bodies[0])
            /\ \A r \in 0..(tra.row_counter - 1) :
                 TraRow(r)[0] = InitialPosition(sol.bodies[0])

\* One body at rest away from the origin, after four steps.
C5_Witness ==
    /\ pc = "loop"
    /\ sol.n = 1
    /\ p0[0] = Zeros3
    /\ InitialPosition(sol.bodies[0]) # Zeros3
    /\ k = 4
    /\ tra.row_counter = 4

\* C6: a construction from tables that do not all have the length of the name
\* list raises and leaves no System.
C6_MismatchedTablesRejected ==
    (args.called /\ (args.shorter \/ args.longer)) =>
        (raised = "IndexError" /\ pc = "raised" /\ sol = None)

\* C7: set_velocities(vel) makes get_velocities() return vel and leaves the
\* positions; set_positions(pos) makes get_positions() return pos and leaves
\* the velocities.
C7_BatchedWrites ==
    [][/\ (pc = "ready" /\ ret'.op = "set_velocities") =>
            (get_velocities(sol') = ret'.arg /\ get_positions(sol') = get_positions(sol))
       /\ (pc = "ready" /\ ret'.op = "set_positions") =>
            (get_positions(sol') = ret'.arg /\ get_velocities(sol') = get_velocities(sol))]_vars

\* C8: after step j = k - 1 >= 1, slot j mod 2 of every body holds q_j and the
\* other slot holds q_(j-1), where q_r is trajectory row r; the current
\* positions are q_j; and for j >= 2 the step read q_(j-1) as the newer and
\* q_(j-2) as the older position and computed
\* q_j = 2 q_(j-1) - q_(j-2) + A dt^2, A the accelerations at positions q_(j-1).
C8_TwoSlotHistory ==
    (pc = "loop" /\ k >= 2) =>
        LET j == k - 1
        IN  /\ tra.row_counter = k
            /\ Cols03(get_integration_results(sol, j % 2)) = TraRow(j)
            /\ Cols03(get_integration_results(sol, (j - 1) % 2)) = TraRow(j - 1)
            /\ get_positions(sol) = TraRow(j)
            /\ j >= 2 =>
                /\ qn = TraRow(j - 1)
                /\ qn1 = TraRow(j - 2)
                /\ qplus = TraRow(j)
                /\ A = get_accelerations(set_positions(sol, TraRow(j - 1)))
                /\ TraRow(j) = AAdd(ASub(AScale(TraRow(j - 1), Fin(2)), TraRow(j - 2)),
                                    AScale(A, Fin(dt2)))

\* Two bodies after the odd step 3, all four rows distinct and finite, under a
\* non-zero acceleration.
C8_Witness ==
    /\ pc = "loop"
    /\ sol.n = 2
    /\ k = 4
    /\ A[0] # Zeros3
    /\ \A r \in 0..3 : \A c \in 1..3 : IsFin(TraRow(r)[0][c])
    /\ \A r, r2 \in 0..3 : r # r2 => TraRow(r) # TraRow(r2)

\* C9: the velocity is never updated: every history slot written so far holds
\* the initial velocity in its velocity components, p0 is the initial velocity,
\* and each body's current velocity is its initial velocity.
C9_VelocityNeverUpdated ==
    pc = "loop" =>
        \A i \in 0..(sol.n - 1) :
            LET b == sol.bodies[i]
            IN  /\ get_velocity(b) = InitialVelocity(b)
                /\ p0[i] = InitialVelocity(b)
                /\ k >= 1 => SubSeq(get_integration_result(b, 0), 4, 6) = InitialVelocity(b)
                /\ k >= 2 => SubSeq(get_integration_result(b, 1), 4, 6) = InitialVelocity(b)

\* A body with a non-zero initial velocity that has moved, both slots written
\* more than once.
C9_Witness ==
    /\ pc = "loop"
    /\ k = 4
    /\ \E i \in 0..(sol.n - 1) :
         /\ InitialVelocity(sol.bodies[i]) # Zeros3
         /\ get_position(sol.bodies[i]) # InitialPosition(sol.bodies[i])

\* C10: the force computation never divides by zero: identical positions give
\* the zero vector, and for any other pair every divisor is non-zero and every
\* component of the force is a finite number.
C10_NoDivisionByZero ==
    ret.op = "force_matrix" =>
        \A i, j \in 0..(sol.n - 1) :
            IF array_equal(get_position(sol.bodies[j]), get_position(sol.bodies[i]))
            THEN ret.val[i][j] = Zeros3
            ELSE /\ \A d \in force_divisors(sol.bodies[i], sol.bodies[j]) : d # Fin(0)
                 /\ \A c \in 1..3 : IsFin(ret.val[i][j][c])

====
